---- MODULE Spec2Model ----
(***************************************************************************)
(* State-machine model of docker/processing_script.py: the batch job that  *)
(* locates volume/mask pairs, splits them into training and validation     *)
(* subsets, slices every volume into 8-bit images and writes a label map.  *)
(*                                                                         *)
(* Arrays are 0-indexed functions, as in numpy; Python lists are 1-indexed *)
(* TLA+ sequences (list position k of the code is position k+1 here).      *)
(* Voxel intensities are non-negative integers; for those the float64      *)
(* expression v / M * 255 truncated to 8 bits equals (v * 255) \div M.     *)
(***************************************************************************)
EXTENDS Integers, Sequences, FiniteSets, TLC

VARIABLES
    dataset,            \* the input tree: one record per subject directory, in glob order
    dirs,               \* output directories that exist
    made,               \* output directories this run created with os.makedirs
    files,              \* slice files on disk: path -> 2-D uint8 array
    write_count,        \* imageio.imsave calls per path during this run
    label_file,         \* <<>> while train_label_map.json is absent, else <<its JSON object>>
    pc,                 \* the statement group main is at
    error,              \* "none", or the unhandled exception that ended the run
    images, masks,      \* the lists built at lines 49-52
    train_images, validation_images, train_masks, validation_masks,
    idx,                \* position of process_mris' loop in its list (0-based)
    log,                \* one record per loop iteration of process_mris that has ended
    runs                \* results of repeated executions of the split on one discovered list

vars == <<dataset, dirs, made, files, write_count, label_file, pc, error, images, masks,
          train_images, validation_images, train_masks, validation_masks, idx, log, runs>>

(***************************************************************************)
(* Bounds of the model.                                                    *)
(***************************************************************************)
MaxSubjects == 3        \* subjects in a dataset of the pipeline specification
MaxDepth == 4           \* first-axis extent of a generated volume
MaxLevel == 2           \* largest plane intensity level of a generated volume
MaxPairs == 10          \* discovered pairs in the split specification

Sides == {1, 2}         \* extents of the second and third axis

(***************************************************************************)
(* Program constants.                                                      *)
(***************************************************************************)
PrefixTokens == 8       \* split('_')[:8]
RandomState == 1984     \* random_state=1984
TestSizePercent == 20   \* test_size=0.2
SliceStart == 1         \* np.arange(1, ...
SliceStep == 2          \* np.arange(..., 2)
Scale255 == 255         \* mris / mris.max() * 255
Uint8Modulus == 256     \* astype(np.uint8)

(***************************************************************************)
(* Input files.  A volume file is unreadable (nib.load raises) or holds an *)
(* array of the given shape.                                               *)
(***************************************************************************)
Malformed == [readable |-> FALSE, shape |-> <<>>, data |-> <<>>]

\* An image of shape (d, h, w) whose plane z has intensity lv[z+1] at its
\* (0, 0) corner and half of it (rounded down) elsewhere.
MkImage(d, h, w, lv) ==
    [readable |-> TRUE,
     shape |-> <<d, h, w>>,
     data |-> [z \in 0..(d - 1) |-> [y \in 0..(h - 1) |-> [x \in 0..(w - 1) |->
                 IF y = 0 /\ x = 0 THEN lv[z + 1] ELSE lv[z + 1] \div 2]]]]

\* A segmentation of shape (d, h, w) with labels 0..3 that differ from plane
\* to plane and within a plane.
MkMask(d, h, w) ==
    [readable |-> TRUE,
     shape |-> <<d, h, w>>,
     data |-> [z \in 0..(d - 1) |-> [y \in 0..(h - 1) |-> [x \in 0..(w - 1) |->
                 (z + y + 2 * x) % 4]]]]

\* Tokens of an image's base name up to its first '.', split at '_'.  By
\* the dataset's convention the name carries the subject; a rescan of
\* subject 1 kept in another directory differs from it after the eighth
\* token only; a short name has fewer than eight tokens.
SubjectName(s) == <<"OAS1", ToString(s), "MR1", "mpr", "n4", "anon", "111", "t88", "gfc">>
RescanName ==
    <<"OAS1", ToString(1), "MR1", "mpr", "n4", "anon", "111", "t88", "rescan", "t88", "gfc">>
ShortName(s) == <<"sub", ToString(s), "t88", "gfc">>

ImageName(naming, s) ==
    CASE naming = "rescan" -> RescanName
      [] naming = "short" -> ShortName(s)
      [] OTHER -> SubjectName(s)

(***************************************************************************)
(* Pure helpers, as numpy and the standard library compute them.           *)
(***************************************************************************)
Min(a, b) == IF a < b THEN a ELSE b

\* s[:n] of a Python list
Take(s, n) == SubSeq(s, 1, Min(Len(s), n))

\* np.arange(start, stop, step) for step > 0
arange(start, stop, step) ==
    LET count == IF stop > start THEN (stop - start + step - 1) \div step ELSE 0
    IN  [k \in 1..count |-> start + (k - 1) * step]

\* ndarray.squeeze(): the shape without its singleton axes
squeeze(shape) == SelectSeq(shape, LAMBDA e : e # 1)

\* a[ind, :, :] succeeds: three axes are left after the squeeze and every
\* index lies inside the first of them
CanIndex(shape, ind) ==
    /\ Len(squeeze(shape)) >= 3
    /\ \A k \in 1..Len(ind) : ind[k] < squeeze(shape)[1]

RECURSIVE SetMax(_)
SetMax(S) ==
    IF S = {} THEN 0
    ELSE LET e == CHOOSE e \in S : TRUE
             m == SetMax(S \ {e})
         IN  IF e > m THEN e ELSE m

\* the values of a 2-D array
PlaneValues(p) == {p[y][x] : y \in DOMAIN p, x \in DOMAIN p[CHOOSE y \in DOMAIN p : TRUE]}

PlaneMax(p) == SetMax(PlaneValues(p))

\* np.rot90(m): transpose(flip(m, axis=1)); an (h, w) array becomes (w, h)
rot90(m, h, w) ==
    [i \in 0..(w - 1) |-> [j \in 0..(h - 1) |-> m[j][w - 1 - i]]]

\* astype(np.uint8) of a non-negative integral float
uint8(v) == v % Uint8Modulus

(***************************************************************************)
(* The library split: sklearn's train_test_split(images, masks,            *)
(* test_size=0.2, random_state=seed) draws RandomState(seed).permutation(n)*)
(* and takes its first n_test entries as the test indices and the rest as  *)
(* the train indices.  The permutations are tabulated from numpy's MT19937 *)
(* stream (0-based indices, for n = 0..12).                                *)
(***************************************************************************)
Permutation1984 ==
    <<  <<>>,
        <<0>>,
        <<1, 0>>,
        <<2, 1, 0>>,
        <<2, 3, 1, 0>>,
        <<2, 0, 1, 3, 4>>,
        <<5, 2, 0, 1, 3, 4>>,
        <<6, 5, 2, 0, 1, 3, 4>>,
        <<5, 6, 7, 2, 0, 1, 3, 4>>,
        <<8, 5, 7, 4, 2, 6, 0, 1, 3>>,
        <<9, 7, 4, 1, 5, 2, 0, 6, 8, 3>>,
        <<10, 7, 4, 1, 5, 2, 0, 6, 8, 9, 3>>,
        <<11, 7, 4, 1, 10, 5, 2, 0, 6, 8, 9, 3>> >>

\* the same for the next seed, 1985: what an unpinned seed may draw
Permutation1985 ==
    <<  <<>>,
        <<0>>,
        <<0, 1>>,
        <<0, 2, 1>>,
        <<2, 0, 3, 1>>,
        <<1, 2, 4, 3, 0>>,
        <<1, 2, 4, 3, 0, 5>>,
        <<1, 2, 4, 3, 0, 6, 5>>,
        <<1, 3, 4, 2, 6, 0, 7, 5>>,
        <<1, 3, 4, 2, 7, 0, 6, 8, 5>>,
        <<1, 3, 2, 4, 8, 7, 0, 6, 9, 5>>,
        <<1, 9, 2, 3, 4, 8, 7, 0, 6, 10, 5>>,
        <<1, 10, 2, 3, 4, 9, 8, 7, 0, 6, 11, 5>> >>

permutation(seed, n) ==
    IF seed = RandomState THEN Permutation1984[n + 1] ELSE Permutation1985[n + 1]

\* n_test = ceil(test_size * n_samples)
NTest(n) == (n * TestSizePercent + 99) \div 100

\* ind_test = permutation[:n_test]; ind_train = permutation[n_test:n_test + n_train]
TestIndices(perm, n_test) == SubSeq(perm, 1, n_test)
TrainIndicesOverlapping(perm, n_test) == SubSeq(perm, n_test, Len(perm))
TrainIndices(perm, n_test) == SubSeq(perm, n_test + 1, Len(perm))

\* _safe_indexing(a, ind) of a list
SafeIndexing(a, ind) == [k \in 1..Len(ind) |-> a[ind[k] + 1]]

\* raises ValueError when the train set would be empty (n_samples < 2)
train_test_split(imgs, msks, seed) ==
    LET n == Len(imgs)
        n_test == NTest(n)
        n_train == n - n_test
        perm == permutation(seed, n)
        test == TestIndices(perm, n_test)
        train == TrainIndices(perm, n_test)
    IN  IF n_train = 0
        THEN [raise |-> "ValueError", train_images |-> <<>>, validation_images |-> <<>>,
              train_masks |-> <<>>, validation_masks |-> <<>>]
        ELSE [raise |-> "none",
              train_images |-> SafeIndexing(imgs, train),
              validation_images |-> SafeIndexing(imgs, test),
              train_masks |-> SafeIndexing(msks, train),
              validation_masks |-> SafeIndexing(msks, test)]

\* The seeds the operating system's entropy may give a generator that the
\* caller has not pinned; they differ from one process to the next.
Entropy == {RandomState, RandomState + 1}

\* the random_state argument of line 58: the pinned seed 1984 (None would
\* leave the seed to the entropy)
random_state_None == [pinned |-> FALSE, seed |-> 0]
random_state == [pinned |-> TRUE, seed |-> RandomState]

\* sklearn's check_random_state: the seed of the generator the split draws from
check_random_state(arg, ent) == IF arg.pinned THEN arg.seed ELSE ent

(***************************************************************************)
(* One iteration of process_mris' loop (lines 18-42).                      *)
(***************************************************************************)
SubjectEntry(s) == dataset[CHOOSE k \in 1..Len(dataset) : dataset[k].subject = s]

\* nib.load on an image path and on a mask path
LoadImage(f) == SubjectEntry(f.subject).image
LoadMask(m) == SubjectEntry(m.subject).mask_matches[m.match]

\* np.arange(1, nii.shape[0], 2)
EvenIndices(nii) == arange(0, nii.shape[1], SliceStep)
OddIndices(nii) == arange(SliceStart, nii.shape[1], SliceStep)

\* a[ind, :, :]
SelectPlanes(vol, ind) == [k \in 0..(Len(ind) - 1) |-> vol.data[ind[k + 1]]]

\* mris.max()
ArrayMax(planes) == SetMax(UNION {PlaneValues(planes[k]) : k \in DOMAIN planes})

\* (v / mx * 255) cast to uint8; 0 / 0 is NaN, whose cast is not defined
ScaledUnscaled(v, mx, nan) == uint8(v)
Scaled(v, mx, nan) == IF mx = 0 THEN nan ELSE uint8((v * Scale255) \div mx)

\* the bytes a NaN may be cast to
NanCast == {0, 255}

\* np.rot90(mris[i]).astype(np.uint8) of the scaled array
MriRotate(plane, h, w, mx, nan) ==
    LET r == rot90(plane, h, w)
    IN  [i \in DOMAIN r |-> [j \in DOMAIN r[i] |-> Scaled(r[i][j], mx, nan)]]

\* np.rot90(segmentations[i]).astype(np.uint8)
SegmentationRotate(plane, h, w) ==
    LET r == rot90(plane, h, w)
    IN  [i \in DOMAIN r |-> [j \in DOMAIN r[i] |-> uint8(r[i][j])]]

\* "_".join(basename.split('.')[0].split('_')[:8]) + "_%i.png" % i
new_fname(tokens, i) == [prefix |-> Take(tokens, PrefixTokens), index |-> i]

Raised(e) == [raise |-> e, skipped |-> FALSE, out |-> <<>>]

\* The iteration for image path f and mask path m: the exception it raises,
\* whether the dimension check skipped the pair, and the slices it saves.
ProcessIteration(f, m, nan) ==
    LET nii == LoadImage(f)
        nii_mask == LoadMask(m)
        ind == OddIndices(nii)
        mris == SelectPlanes(nii, ind)
        mx == ArrayMax(mris)
        segmentations == SelectPlanes(nii_mask, ind)
        h == nii.shape[2]
        w == nii.shape[3]
    IN  IF ~nii.readable THEN Raised("ImageFileError")
        ELSE IF ~CanIndex(nii.shape, ind) THEN Raised("IndexError")
        ELSE IF Len(ind) = 0 THEN Raised("ValueError")
        ELSE IF ~nii_mask.readable THEN Raised("ImageFileError")
        ELSE IF ~CanIndex(nii_mask.shape, ind) THEN Raised("IndexError")
        ELSE IF nii.shape # nii_mask.shape
             THEN [raise |-> "none", skipped |-> TRUE, out |-> <<>>]
        ELSE [raise |-> "none", skipped |-> FALSE,
              out |-> [k \in 1..Len(ind) |->
                        [name |-> new_fname(f.tokens, k - 1),
                         image |-> MriRotate(mris[k - 1], h, w, mx, nan),
                         mask |-> SegmentationRotate(segmentations[k - 1], h, w)]]]

(***************************************************************************)
(* main: the order of its statement groups, and its paths.                 *)
(***************************************************************************)
PhaseAfterLabelFirst(p) ==
    CASE p = "locate" -> "split"
      [] p = "split" -> "mkdirs"
      [] p = "mkdirs" -> "train"
      [] p = "train" -> "label_map"
      [] p = "label_map" -> "validation"
      [] OTHER -> "done"

PhaseAfter(p) ==
    CASE p = "locate" -> "split"
      [] p = "split" -> "mkdirs"
      [] p = "mkdirs" -> "train"
      [] p = "train" -> "validation"
      [] p = "validation" -> "label_map"
      [] OTHER -> "done"

SliceDirs == {"train", "validation", "train_annotation", "validation_annotation"}
OutputDirs == SliceDirs \cup {"label_map"}

TargetDir(p) == IF p = "train" THEN "train" ELSE "validation"
MaskDir(p) == IF p = "train" THEN "train_annotation" ELSE "validation_annotation"

CurImages == IF pc = "train" THEN train_images ELSE validation_images
CurMasks == IF pc = "train" THEN train_masks ELSE validation_masks

\* create_dir_if_not_exist(d) on the set ds of existing directories
create_dir_if_not_exist(d, ds) == IF d \notin ds THEN ds \cup {d} ELSE ds

\* label_map = { "scale": 1 }
LabelMapScaled == [scale |-> Scale255]
LabelMap == [scale |-> 1]

\* glob(...)[0] for each subject: IndexError when a subject has no match
LocateMasksLenient(ds) ==
    [raise |-> "none",
     masks |-> [k \in 1..Len(ds) |-> [subject |-> ds[k].subject, match |-> 1]]]
LocateMasks(ds) ==
    IF \E k \in 1..Len(ds) : Len(ds[k].mask_matches) = 0
    THEN [raise |-> "IndexError", masks |-> <<>>]
    ELSE [raise |-> "none",
          masks |-> [k \in 1..Len(ds) |-> [subject |-> ds[k].subject, match |-> 1]]]

\* lines 49-52
Locate ==
    /\ pc = "locate" /\ error = "none"
    /\ images' = [k \in 1..Len(dataset) |->
                    [subject |-> dataset[k].subject, tokens |-> dataset[k].tokens]]
    /\ LET r == LocateMasks(dataset)
       IN  /\ masks' = r.masks
           /\ error' = r.raise
           /\ pc' = IF r.raise = "none" THEN PhaseAfter(pc) ELSE pc
    /\ UNCHANGED <<dataset, dirs, made, files, write_count, label_file, train_images,
                   validation_images, train_masks, validation_masks, idx, log, runs>>

\* lines 57-58
Split ==
    /\ pc = "split" /\ error = "none"
    /\ \E ent \in Entropy :
       LET r == train_test_split(images, masks, check_random_state(random_state, ent))
       IN  /\ train_images' = r.train_images
           /\ validation_images' = r.validation_images
           /\ train_masks' = r.train_masks
           /\ validation_masks' = r.validation_masks
           /\ error' = r.raise
           /\ pc' = IF r.raise = "none" THEN PhaseAfter(pc) ELSE pc
    /\ UNCHANGED <<dataset, dirs, made, files, write_count, label_file, images, masks,
                   idx, log, runs>>

\* lines 60-70
MakeDirs ==
    /\ pc = "mkdirs" /\ error = "none"
    /\ dirs' = create_dir_if_not_exist("validation_annotation",
                 create_dir_if_not_exist("train_annotation",
                   create_dir_if_not_exist("validation",
                     create_dir_if_not_exist("train", dirs))))
    /\ made' = made \cup (dirs' \ dirs)
    /\ pc' = PhaseAfter(pc)
    /\ idx' = 0
    /\ UNCHANGED <<dataset, files, write_count, label_file, error, images, masks,
                   train_images, validation_images, train_masks, validation_masks, log, runs>>

Path(d, name) == [dir |-> d, name |-> name]

\* one iteration of the loop of process_mris (lines 18-42), in the call of
\* line 73 (pc = "train") or of line 74 (pc = "validation")
ProcessPair ==
    /\ pc \in {"train", "validation"} /\ error = "none"
    /\ idx < Len(CurImages)
    /\ \E nan \in NanCast :
       \E r \in {ProcessIteration(CurImages[idx + 1], CurMasks[idx + 1], nan)} :
         LET n == Len(r.out)
             imgPaths == {Path(TargetDir(pc), r.out[k].name) : k \in 1..n}
             mskPaths == {Path(MaskDir(pc), r.out[k].name) : k \in 1..n}
             content(p) ==
                 LET k == CHOOSE k \in 1..n : r.out[k].name = p.name
                 IN  IF p.dir = TargetDir(pc) THEN r.out[k].image ELSE r.out[k].mask
         IN  /\ files' = [p \in DOMAIN files \cup imgPaths \cup mskPaths |->
                            IF p \in imgPaths \cup mskPaths THEN content(p) ELSE files[p]]
             /\ write_count' = [p \in DOMAIN files \cup imgPaths \cup mskPaths |->
                            (IF p \in DOMAIN write_count THEN write_count[p] ELSE 0)
                            + (IF p \in imgPaths \cup mskPaths THEN 1 ELSE 0)]
             /\ error' = r.raise
             /\ idx' = IF r.raise = "none" THEN idx + 1 ELSE idx
             /\ log' = Append(log,
                         [phase |-> pc,
                          image |-> CurImages[idx + 1],
                          mask |-> CurMasks[idx + 1],
                          outcome |-> IF r.raise # "none" THEN "raised"
                                      ELSE IF r.skipped THEN "skipped" ELSE "sliced",
                          n_images |-> Cardinality(imgPaths),
                          n_masks |-> Cardinality(mskPaths),
                          nan |-> nan])
    /\ UNCHANGED <<dataset, dirs, made, label_file, pc, images, masks, train_images,
                   validation_images, train_masks, validation_masks, runs>>

\* the loop of process_mris is exhausted and the call returns
ProcessReturn ==
    /\ pc \in {"train", "validation"} /\ error = "none"
    /\ idx = Len(CurImages)
    /\ pc' = PhaseAfter(pc)
    /\ idx' = 0
    /\ UNCHANGED <<dataset, dirs, made, files, write_count, label_file, error, images,
                   masks, train_images, validation_images, train_masks, validation_masks,
                   log, runs>>

\* lines 76-81
WriteLabelMap ==
    /\ pc = "label_map" /\ error = "none"
    /\ dirs' = create_dir_if_not_exist("label_map", dirs)
    /\ made' = made \cup (dirs' \ dirs)
    /\ label_file' = <<LabelMap>>
    /\ pc' = PhaseAfter(pc)
    /\ UNCHANGED <<dataset, files, write_count, error, images, masks, train_images,
                   validation_images, train_masks, validation_masks, idx, log, runs>>

Next == Locate \/ Split \/ MakeDirs \/ ProcessPair \/ ProcessReturn \/ WriteLabelMap

(***************************************************************************)
(* The pipeline specification: a run of main on a dataset of at most       *)
(* MaxSubjects subject directories, each one of the cases below, with the  *)
(* output directories absent or left over from an earlier run.             *)
(***************************************************************************)
SubjectCases ==
    { \* matching shapes, depth 4: two slices
      [naming |-> "oasis", image |-> MkImage(4, 2, 2, <<1, 2, 0, 1>>),
       mask_matches |-> <<MkMask(4, 2, 2)>>],
      \* matching shapes, depth 2: one slice; a short name
      [naming |-> "short", image |-> MkImage(2, 2, 2, <<2, 1>>),
       mask_matches |-> <<MkMask(2, 2, 2)>>],
      \* a rescan of subject 1: its name shares the first eight tokens
      [naming |-> "rescan", image |-> MkImage(2, 2, 2, <<0, 2>>),
       mask_matches |-> <<MkMask(2, 2, 2)>>],
      \* the selected planes are all zero
      [naming |-> "oasis", image |-> MkImage(3, 2, 2, <<2, 0, 1>>),
       mask_matches |-> <<MkMask(3, 2, 2)>>],
      \* mask deeper than the image
      [naming |-> "oasis", image |-> MkImage(2, 2, 2, <<1, 2>>),
       mask_matches |-> <<MkMask(3, 2, 2)>>],
      \* mask wider than the image
      [naming |-> "oasis", image |-> MkImage(2, 2, 2, <<1, 2>>),
       mask_matches |-> <<MkMask(2, 2, 3)>>],
      \* mask shallower than the image
      [naming |-> "oasis", image |-> MkImage(4, 2, 2, <<1, 1, 1, 2>>),
       mask_matches |-> <<MkMask(3, 2, 2)>>],
      \* no mask file
      [naming |-> "oasis", image |-> MkImage(2, 2, 2, <<1, 1>>),
       mask_matches |-> <<>>],
      \* unreadable image
      [naming |-> "oasis", image |-> Malformed,
       mask_matches |-> <<MkMask(2, 2, 2)>>],
      \* a singleton second axis
      [naming |-> "oasis", image |-> MkImage(2, 1, 2, <<1, 2>>),
       mask_matches |-> <<MkMask(2, 1, 2)>>] }

\* subject directory k holds case c[k]
DatasetOf(c) ==
    [k \in 1..Len(c) |->
       [subject |-> k, tokens |-> ImageName(c[k].naming, k), image |-> c[k].image,
        mask_matches |-> c[k].mask_matches]]

InitRun ==
    /\ made = {}
    /\ files = <<>>
    /\ write_count = <<>>
    /\ label_file = <<>>
    /\ pc = "locate"
    /\ error = "none"
    /\ images = <<>> /\ masks = <<>>
    /\ train_images = <<>> /\ validation_images = <<>>
    /\ train_masks = <<>> /\ validation_masks = <<>>
    /\ idx = 0
    /\ log = <<>>
    /\ runs = <<>>

Init ==
    /\ \E n \in 0..MaxSubjects : \E c \in [1..n -> SubjectCases] : dataset = DatasetOf(c)
    /\ dirs \in {{}, OutputDirs}
    /\ InitRun

Spec == Init /\ [][Next]_vars

(***************************************************************************)
(* The slicing specification: a run of main on two subjects, the first any *)
(* generated volume/mask pair within the bounds, the second a plain pair.  *)
(* With two pairs the split sends the first to training and the second to  *)
(* validation.                                                             *)
(***************************************************************************)
\* masks of the image's sides and any depth, or of its depth and any third extent
GeneratedMasks(d, h, w) ==
    {MkMask(dm, h, w) : dm \in 1..MaxDepth} \cup {MkMask(d, h, wm) : wm \in Sides}

GeneratedCase(im, mk) == [naming |-> "oasis", image |-> im, mask_matches |-> <<mk>>]

PlainCase ==
    [naming |-> "oasis", image |-> MkImage(2, 2, 2, <<2, 1>>),
     mask_matches |-> <<MkMask(2, 2, 2)>>]

InitSlicing ==
    /\ \/ dataset = DatasetOf(<<GeneratedCase(Malformed, MkMask(2, 2, 2)), PlainCase>>)
       \/ \E d \in 1..MaxDepth, h \in Sides, w \in Sides :
            \E lv \in [1..d -> 0..MaxLevel] : \E mk \in GeneratedMasks(d, h, w) :
               dataset = DatasetOf(<<GeneratedCase(MkImage(d, h, w, lv), mk), PlainCase>>)
    /\ dirs = {}
    /\ InitRun

SpecSlicing == InitSlicing /\ [][Next]_vars

(***************************************************************************)
(* The split specification: lines 57-58 executed in two runs of main, each *)
(* a process with its own entropy, on                                      *)
(* the same discovered list of up to MaxPairs pairs, in any rotation of    *)
(* the glob order.                                                         *)
(***************************************************************************)
RotatedDataset(n, r) ==
    [k \in 1..n |->
       [subject |-> ((k - 1 + r) % n) + 1,
        tokens |-> SubjectName(((k - 1 + r) % n) + 1),
        image |-> PlainCase.image,
        mask_matches |-> PlainCase.mask_matches]]

InitSplit ==
    /\ \E n \in 0..MaxPairs : \E r \in 0..(IF n = 0 THEN 0 ELSE n - 1) :
         dataset = RotatedDataset(n, r)
    /\ dirs = {}
    /\ InitRun

\* lines 57-58 in the next run of main on the lists of lines 49-52
SplitRun ==
    /\ pc = "split" /\ error = "none"
    /\ Len(runs) < 2
    /\ \E ent \in Entropy :
         LET r == train_test_split(images, masks, check_random_state(random_state, ent))
         IN  runs' = Append(runs,
                       [entropy |-> ent, raise |-> r.raise,
                        train_images |-> r.train_images,
                        validation_images |-> r.validation_images,
                        train_masks |-> r.train_masks,
                        validation_masks |-> r.validation_masks])
    /\ UNCHANGED <<dataset, dirs, made, files, write_count, label_file, pc, error, images,
                   masks, train_images, validation_images, train_masks, validation_masks,
                   idx, log>>

NextSplit == Locate \/ SplitRun

SpecSplit == InitSplit /\ [][NextSplit]_vars

(***************************************************************************)
(* Vocabulary of the properties.                                           *)
(***************************************************************************)
Ended == pc = "done" \/ error # "none"

LogEntries == {log[k] : k \in 1..Len(log)}
Sliced == {e \in LogEntries : e.outcome = "sliced"}

\* both files of the pair are volumes
Loadable(e) == LoadImage(e.image).readable /\ LoadMask(e.mask).readable
ShapesMatch(e) == Loadable(e) /\ LoadImage(e.image).shape = LoadMask(e.mask).shape
ShapesDiffer(e) == Loadable(e) /\ LoadImage(e.image).shape # LoadMask(e.mask).shape

Depth(e) == LoadImage(e.image).shape[1]

\* the largest intensity of the whole volume, and of its odd planes
VolumeMax(vol) == SetMax(UNION {PlaneValues(vol.data[z]) : z \in DOMAIN vol.data})
OddPlaneMax(vol) ==
    SetMax(UNION {PlaneValues(vol.data[z]) : z \in {z \in DOMAIN vol.data : z % 2 = 1}})

\* the path of slice i of the pair of log entry e, in the image and the mask directory
ImagePath(e, i) ==
    [dir |-> IF e.phase = "train" THEN "train" ELSE "validation",
     name |-> [prefix |-> SubSeq(e.image.tokens, 1, Min(8, Len(e.image.tokens))), index |-> i]]
MaskPath(e, i) ==
    [dir |-> IF e.phase = "train" THEN "train_annotation" ELSE "validation_annotation",
     name |-> [prefix |-> SubSeq(e.image.tokens, 1, Min(8, Len(e.image.tokens))), index |-> i]]

\* what slice i of the pair of e has to hold: plane 2i+1, rotated a quarter
\* turn counter-clockwise, the image scaled by 255 over the odd planes' maximum
ExpectedImage(e, i) ==
    LET vol == LoadImage(e.image)
        h == vol.shape[2]
        w == vol.shape[3]
        mx == OddPlaneMax(vol)
    IN  [r \in 0..(w - 1) |-> [c \in 0..(h - 1) |->
           IF mx = 0 THEN e.nan ELSE (vol.data[2 * i + 1][c][w - 1 - r] * 255) \div mx]]
ExpectedMask(e, i) ==
    LET vol == LoadMask(e.mask)
        h == vol.shape[2]
        w == vol.shape[3]
    IN  [r \in 0..(w - 1) |-> [c \in 0..(h - 1) |-> vol.data[2 * i + 1][c][w - 1 - r]]]

NamesIn(d) == {p.name : p \in {q \in DOMAIN files : q.dir = d}}

\* the calls of process_mris that have returned
Returned ==
    (IF pc \in {"validation", "label_map", "done"} THEN {"train"} ELSE {})
    \cup (IF pc \in {"label_map", "done"} THEN {"validation"} ELSE {})

(***************************************************************************)
(* Properties.                                                             *)
(***************************************************************************)

\* C1: in process_mris, every pair whose image shape differs from its mask
\* shape (in any axis, the mask's first axis shorter or longer included)
\* writes no file and does not stop the loop: its iteration ends in the
\* dimension check's skip, so the later pairs are still processed.
C1_MismatchedPairSkipped ==
    \A e \in LogEntries :
        ShapesDiffer(e) => e.outcome = "skipped" /\ e.n_images = 0 /\ e.n_masks = 0

\* C2: in process_mris, for every pair whose image and mask shapes match,
\* with first-axis depth d >= 1, the iteration writes as many image files as
\* mask files, and that number is the count of odd indices in [1, d),
\* floor(d / 2).
C2_SliceCountIsHalfDepth ==
    \A e \in LogEntries :
        ShapesMatch(e) => e.n_images = e.n_masks /\ e.n_images = Depth(e) \div 2

\* C3 as stated: for every volume whose maximum intensity is greater than 0,
\* every image slice emitted for it has maximum pixel value exactly 255.
C3_EverySliceReaches255 ==
    \A e \in Sliced :
        VolumeMax(LoadImage(e.image)) > 0 =>
            \A i \in 0..(e.n_images - 1) : PlaneMax(files[ImagePath(e, i)]) = 255

\* C3 amended: for every volume whose odd-index planes (the ones sliced) have
\* maximum intensity M > 0, the largest pixel over all the image slices
\* emitted for it is exactly 255, and the maximum of each single slice is
\* floor(255 * m / M) for the maximum m of its plane, so a slice reaches 255
\* exactly when its plane holds a voxel equal to M.
C3_VolumeReaches255 ==
    \A e \in Sliced :
        LET vol == LoadImage(e.image)
            M == OddPlaneMax(vol)
        IN  M > 0 =>
              /\ \E i \in 0..(e.n_images - 1) : PlaneMax(files[ImagePath(e, i)]) = 255
              /\ \A i \in 0..(e.n_images - 1) :
                    /\ PlaneMax(files[ImagePath(e, i)])
                         = (255 * PlaneMax(vol.data[2 * i + 1])) \div M
                    /\ PlaneMax(files[ImagePath(e, i)]) = 255
                         <=> PlaneMax(vol.data[2 * i + 1]) = M

\* a volume sliced into two images, one reaching 255 and one staying below
C3_Witness ==
    \E e \in Sliced :
        /\ OddPlaneMax(LoadImage(e.image)) > 0
        /\ e.n_images = 2
        /\ \E i \in 0..1 : PlaneMax(files[ImagePath(e, i)]) = 255
        /\ \E i \in 0..1 : PlaneMax(files[ImagePath(e, i)]) \in 1..254

\* C4 as stated: the split assigns 20% of the N discovered pairs to
\* validation and the other 80% to training (for N = 10 exactly 8 and 2),
\* and two runs on the same discovered list produce the identical four
\* sequences.
C4_SplitIsTwentyEighty ==
    /\ \A r \in 1..Len(runs) :
         LET n == Len(images)
             nv == Len(runs[r].validation_images)
             nt == Len(runs[r].train_images)
         IN  /\ runs[r].raise = "none"
             /\ 100 * nv = 20 * n
             /\ 100 * nt = 80 * n
             /\ n = 10 => nt = 8 /\ nv = 2
    /\ Len(runs) = 2 =>
         /\ runs[1].train_images = runs[2].train_images
         /\ runs[1].validation_images = runs[2].validation_images
         /\ runs[1].train_masks = runs[2].train_masks
         /\ runs[1].validation_masks = runs[2].validation_masks

\* C4 amended: for N >= 2 discovered pairs the split assigns ceil(0.2 N)
\* pairs to validation and the other N - ceil(0.2 N) to training, which is
\* exactly 20% and 80% when 5 divides N (for N = 10 exactly 8 training and 2
\* validation pairs); for N < 2 it raises ValueError and assigns nothing;
\* and two runs on the same discovered list end alike with the identical
\* four sequences, whatever entropy each process finds.
C4_SplitSizesAndDeterminism ==
    /\ \A r \in 1..Len(runs) :
         LET n == Len(images)
             nv == Len(runs[r].validation_images)
             nt == Len(runs[r].train_images)
         IN  /\ Len(runs[r].validation_masks) = nv
             /\ Len(runs[r].train_masks) = nt
             /\ n < 2 => runs[r].raise = "ValueError" /\ nv = 0 /\ nt = 0
             /\ n >= 2 =>
                  /\ runs[r].raise = "none"
                  /\ 100 * nv >= 20 * n /\ 100 * (nv - 1) < 20 * n
                  /\ nt = n - nv
             /\ (n >= 2 /\ n % 5 = 0) => 100 * nv = 20 * n /\ 100 * nt = 80 * n
             /\ n = 10 => nt = 8 /\ nv = 2
    /\ Len(runs) = 2 =>
         /\ runs[1].raise = runs[2].raise
         /\ runs[1].train_images = runs[2].train_images
         /\ runs[1].validation_images = runs[2].validation_images
         /\ runs[1].train_masks = runs[2].train_masks
         /\ runs[1].validation_masks = runs[2].validation_masks

\* ten discovered pairs, split by two processes that found different entropy
C4_Witness ==
    /\ Len(images) = 10
    /\ Len(runs) = 2
    /\ runs[1].entropy # runs[2].entropy
    /\ runs[2].raise = "none"
    /\ Len(runs[2].train_images) = 8
    /\ Len(runs[2].validation_images) = 2

\* C5 as stated: for every input dataset, once the run of main has ended the
\* label-map file exists and contains exactly {"scale": 1}.
C5_LabelMapAfterEveryRun ==
    Ended => label_file = <<[scale |-> 1]>>

\* C5 amended: once a run of main has ended without an unhandled error, the
\* label-map file exists and contains exactly {"scale": 1} (shape-mismatched
\* pairs that were skipped included); a run that ended in an unhandled error
\* (fewer than two pairs, a subject without a mask, a malformed or
\* unindexable volume) has not written the file; whenever the file exists
\* its content is {"scale": 1}.
C5_LabelMapAfterCompletedRun ==
    /\ (pc = "done" /\ error = "none") => label_file = <<[scale |-> 1]>>
    /\ error # "none" => label_file = <<>>
    /\ label_file # <<>> => label_file = <<[scale |-> 1]>> /\ pc = "done"

\* a completed run that skipped a shape-mismatched pair
C5_Witness ==
    /\ pc = "done"
    /\ label_file = <<[scale |-> 1]>>
    /\ \E e \in LogEntries : e.outcome = "skipped"

\* C6: after a call of process_mris has returned, its target directory and
\* its mask directory hold the same file names; the image file and the mask
\* file of a name <prefix>_<i>.png are derived from depth index 2i+1 of the
\* volume and of the mask of one and the same pair; and the indices of a
\* prefix run from 0 without gaps, over 0..floor(d/2)-1 for each sliced pair.
C6_SameNamesFromOddPlanes ==
    \A ph \in Returned :
        LET tdir == IF ph = "train" THEN "train" ELSE "validation"
            mdir == IF ph = "train" THEN "train_annotation" ELSE "validation_annotation"
            mine == {e \in Sliced : e.phase = ph}
        IN  /\ NamesIn(tdir) = NamesIn(mdir)
            /\ \A nm \in NamesIn(tdir) :
                 /\ nm.index > 0 => [prefix |-> nm.prefix, index |-> nm.index - 1] \in NamesIn(tdir)
                 /\ \E e \in mine :
                      /\ ImagePath(e, nm.index).name = nm
                      /\ nm.index < Depth(e) \div 2
                      /\ files[[dir |-> tdir, name |-> nm]] = ExpectedImage(e, nm.index)
                      /\ files[[dir |-> mdir, name |-> nm]] = ExpectedMask(e, nm.index)
            /\ \A e \in mine :
                 \A i \in 0..((Depth(e) \div 2) - 1) : ImagePath(e, i).name \in NamesIn(tdir)

\* both calls have returned and a depth-4 pair left slices 0 and 1
C6_Witness ==
    /\ pc = "done"
    /\ \E p \in DOMAIN files : p.dir = "train" /\ p.name.index = 1
    /\ \E p \in DOMAIN files : p.dir = "validation_annotation"

\* C7: during one run of main every output slice path is written at most
\* once: no two (pair, slice index) combinations processed into the same
\* directory produce the same file name.
C7_SlicePathsWrittenOnce ==
    \A p \in DOMAIN write_count : write_count[p] <= 1

\* C8: the split is a partition that keeps pairs intact: every discovered
\* (image, mask) pair is in exactly one of the two subsets, position k of a
\* subset's image sequence is paired with its own subject's mask at position
\* k of the subset's mask sequence, and no pair is dropped or duplicated.
C8_SplitIsPartitionOfPairs ==
    \A r \in 1..Len(runs) :
        runs[r].raise = "none" =>
          LET ti == runs[r].train_images
              tm == runs[r].train_masks
              vi == runs[r].validation_images
              vm == runs[r].validation_masks
          IN  /\ Len(ti) = Len(tm) /\ Len(vi) = Len(vm)
              /\ \A k \in 1..Len(ti) :
                   /\ tm[k].subject = ti[k].subject
                   /\ \E j \in 1..Len(images) : images[j] = ti[k] /\ masks[j] = tm[k]
              /\ \A k \in 1..Len(vi) :
                   /\ vm[k].subject = vi[k].subject
                   /\ \E j \in 1..Len(images) : images[j] = vi[k] /\ masks[j] = vm[k]
              /\ \A j \in 1..Len(images) :
                   Cardinality({k \in 1..Len(ti) : ti[k] = images[j]})
                     + Cardinality({k \in 1..Len(vi) : vi[k] = images[j]}) = 1
              /\ Len(ti) + Len(vi) = Len(images)

\* a split with several pairs on either side
C8_Witness ==
    \E r \in 1..Len(runs) :
        /\ runs[r].raise = "none"
        /\ Len(runs[r].validation_images) >= 2
        /\ Len(runs[r].train_images) >= 5

\* C9: if a discovered volume's subject has no matching mask file, the run
\* ends with an unhandled error during dataset location, before the split,
\* and no output directory, slice file or label-map file has been created,
\* whatever the other subjects contain.
C9_MissingMaskStopsBeforeOutput ==
    (\E k \in 1..Len(dataset) : Len(dataset[k].mask_matches) = 0) =>
        /\ pc = "locate"
        /\ error \in {"none", "IndexError"}
        /\ train_images = <<>> /\ validation_images = <<>>
        /\ made = {}
        /\ DOMAIN files = {}
        /\ label_file = <<>>

\* the run has stopped at the location of a dataset of three subjects, one
\* without a mask and one with a sliceable pair
C9_Witness ==
    /\ error = "IndexError" /\ pc = "locate"
    /\ Len(dataset) = 3
    /\ \E k \in 1..3 : Len(dataset[k].mask_matches) = 0
    /\ \E k \in 1..3 :
         /\ Len(dataset[k].mask_matches) = 1
         /\ dataset[k].image.readable
         /\ dataset[k].image.shape = dataset[k].mask_matches[1].shape

\* C10: the four slice directories exist before the first slice is written;
\* every training pair is processed before any validation pair; the label
\* map is written only after both process_mris calls have returned; so a run
\* stopped by an unhandled error keeps the slices already written (the step
\* that raises changes no file), writes nothing afterwards and never writes
\* the label map.
C10_OrderOfMain ==
    /\ [](/\ DOMAIN files # {} => SliceDirs \subseteq dirs
          /\ (\E e \in LogEntries : e.phase = "validation") =>
                 Cardinality({k \in 1..Len(log) : log[k].phase = "train"}) = Len(train_images)
          /\ label_file # <<>> =>
                 /\ Returned = {"train", "validation"}
                 /\ Len(log) = Len(train_images) + Len(validation_images)
          /\ error # "none" => label_file = <<>>)
    /\ [][(error # "none" \/ error' # "none") =>
             /\ files' = files
             /\ write_count' = write_count
             /\ label_file' = label_file]_vars

\* a run stopped while slicing the validation pairs, the training slices kept
C10_Witness ==
    /\ error # "none"
    /\ pc = "validation"
    /\ \E p \in DOMAIN files : p.dir = "train"
    /\ label_file = <<>>
====
